---- MODULE Spec2Model ----
(***************************************************************************)
(* The site's stateful parts as state machines: the typewriter phrase     *)
(* cycler of src/components/TypingEffect.tsx, the contact endpoint of     *)
(* src/unnamed/part_002 and the contact form of                           *)
(* src/components/Contact.tsx and the theme toggle of                     *)
(* src/unnamed/part_005.  They share no state; each has its own           *)
(* variables, actions and specifications.                                 *)
(*                                                                         *)
(* The cycler.                                                             *)
(*                                                                         *)
(* The component keeps four pieces of React state (currentPhraseIndex,     *)
(* currentText, isDeleting, isPaused), receives four props (phrases,       *)
(* typingSpeed, deletingSpeed, pauseDuration) and owns one effect whose    *)
(* dependency list names all eight.  A step of the machine is one of the   *)
(* callbacks of the source: the effect (cleanup of the previous run, then  *)
(* the body), the tick timer's callback, the pause timer's callback, a     *)
(* re-render of the parent with new props, unmount and mount.              *)
(*                                                                         *)
(* A text is a sequence of one-character strings, so that slicing and      *)
(* comparing texts is computed and not assumed.                            *)
(*                                                                         *)
(* React runs the pending effect of a committed render before it handles   *)
(* the next update, so every other step waits for a pending effect.        *)
(***************************************************************************)
EXTENDS Integers, Sequences, FiniteSets

VARIABLES
    phrases,            \* prop: the phrase list (a sequence of texts)
    typingSpeed,        \* prop: ms per typed character
    deletingSpeed,      \* prop: ms per deleted character
    pauseDuration,      \* prop: ms to wait on a completed phrase
    currentPhraseIndex, \* state: 0-based index into phrases (NaN after % 0)
    currentText,        \* state: the displayed text
    isDeleting,         \* state
    isPaused,           \* state
    mounted,            \* the component instance is mounted
    effectPending,      \* a render changed a dependency; the effect has not run yet
    timers,             \* the browser's pending timeouts of this component
    cleanup,            \* the timer id the last effect run's cleanup clears (0: none)
    lastTimerId,        \* the id the browser handed out last (0: none yet)
    instance,           \* which mount of the component this is (1, 2, ...)
    threw,              \* a TypeError escaped a state updater of this instance
    replacements,       \* how often the parent has replaced the phrase list
    request,            \* endpoint: the request being handled
    routePc,            \* endpoint: where the handler stands
    response,           \* endpoint: the response returned
    mailCalls,          \* endpoint: the calls made to resend.emails.send
    mailOutcome,        \* endpoint: how the mail call settled
    contactMounted,     \* form: the Contact component is mounted
    formData,           \* form: what the fields hold
    isSubmitting,       \* form: react-hook-form's formState.isSubmitting
    submitStatus,       \* form: state 'idle' | 'loading' | 'success' | 'error'
    errorMessage,       \* form: state
    validating,         \* form: submissions whose field validation is running
    fetching,           \* form: requests to /api/contact in flight
    readingError,       \* form: submissions reading the body of an error response
    hideTimers,         \* form: pending auto-hide timeouts
    submits,            \* form: submissions started so far
    theme,              \* toggle: next-themes' stored theme
    systemTheme,        \* toggle: the system's prefers-color-scheme
    togglesMounted,     \* toggle: the ThemeToggle instances whose mounted is true
    clicks,             \* toggle: clicks so far
    themeLog            \* toggle: the themes at the start and after each click

props == <<phrases, typingSpeed, deletingSpeed, pauseDuration>>
state == <<currentPhraseIndex, currentText, isDeleting, isPaused>>
cycler == <<phrases, typingSpeed, deletingSpeed, pauseDuration,
            currentPhraseIndex, currentText, isDeleting, isPaused,
            mounted, effectPending, timers, cleanup, lastTimerId, instance, threw,
            replacements>>
route == <<request, routePc, response, mailCalls, mailOutcome>>
form  == <<contactMounted, formData, isSubmitting, submitStatus, errorMessage,
           validating, fetching, readingError, hideTimers, submits>>
toggle == <<theme, systemTheme, togglesMounted, clicks, themeLog>>
vars  == <<cycler, route, form, toggle>>

----------------------------------------------------------------------------
(* Bounds of the model *)

\* How many times the component is mounted in one run.
MaxInstances == 2

\* Timer ids are handed out 1, 2, .., MaxTimerId, 1, ..: only whether an id
\* is that of a pending timer matters.
MaxTimerId == 2

\* The longest phrase list a parent passes.
MaxPhrases == 2

\* How many times the parent replaces the phrase list of a running cycler.
MaxReplacements == 2

\* How many times the contact form is submitted in one run.
MaxSubmits == 3

\* How many times the theme toggle is clicked in one run.
MaxClicks == 3

----------------------------------------------------------------------------
(* Inputs *)

\* The phrases a parent may put in a list.
Phrases == { <<"a">>, <<"a", "b">>, <<"c", "d">> }

RECURSIVE ListsOfLen(_)
ListsOfLen(n) ==
    IF n = 0 THEN { <<>> }
    ELSE { Append(l, p) : l \in ListsOfLen(n - 1), p \in Phrases }

\* Every phrase list of at most MaxPhrases phrases, the empty list included.
PhraseLists == UNION { ListsOfLen(n) : n \in 0..MaxPhrases }

\* The defaults of the optional props.
DefaultTypingSpeed == 100
DefaultDeletingSpeed == 50
DefaultPauseDuration == 2000

\* The configurations a parent may pass: the defaults, the ones Hero passes,
\* and one with a zero and a negative interval.
Configs ==
    { [typingSpeed |-> DefaultTypingSpeed, deletingSpeed |-> DefaultDeletingSpeed,
       pauseDuration |-> DefaultPauseDuration],
      [typingSpeed |-> 80, deletingSpeed |-> 40, pauseDuration |-> 1500],
      [typingSpeed |-> 0, deletingSpeed |-> 0 - 40, pauseDuration |-> 0] }

ValidConfig(cfg) ==
    cfg.typingSpeed > 0 /\ cfg.deletingSpeed > 0 /\ cfg.pauseDuration >= 0

----------------------------------------------------------------------------
(* JavaScript values and the pure expressions of the component *)

\* The value of phrases[i] for an index outside the list.
Undefined == << "undefined" >>

\* The value of (prev + 1) % 0; it is absorbing: (NaN + 1) % n is NaN.
NaN == 0 - 1

Min(a, b) == IF a <= b THEN a ELSE b

\* phrases[currentPhraseIndex], 0-based.
PhraseAt(ps, i) ==
    IF i \in 0..(Len(ps) - 1) THEN ps[i + 1] ELSE Undefined

\* Mutant: prev + currentPhrase[prev.length], the next character appended to
\* whatever is shown.
TypeCharAppending(currentPhrase, prev) ==
    IF Len(prev) < Len(currentPhrase)
    THEN Append(prev, currentPhrase[Len(prev) + 1])
    ELSE prev

\* Mutant: appends the character after the next one,
\* prev + currentPhrase[prev.length + 1].
TypeCharSkipping(currentPhrase, prev) ==
    Append(prev, currentPhrase[Min(Len(prev) + 2, Len(currentPhrase))])

\* Mutant: types two characters per tick, currentPhrase.slice(0, prev.length + 2).
TypeCharDouble(currentPhrase, prev) ==
    SubSeq(currentPhrase, 1, Min(Len(prev) + 2, Len(currentPhrase)))

\* currentPhrase.slice(0, prev.length + 1)
TypeChar(currentPhrase, prev) ==
    SubSeq(currentPhrase, 1, Min(Len(prev) + 1, Len(currentPhrase)))

\* Mutant: deletes two characters per tick, prev.slice(0, -2).
DeleteCharDouble(prev) ==
    IF Len(prev) <= 2 THEN <<>> ELSE SubSeq(prev, 1, Len(prev) - 2)

\* Mutant: prev.slice(0, -1) || prev, which keeps a last character because
\* the empty string is falsy.
DeleteCharKeepingLast(prev) ==
    IF Len(prev) <= 1 THEN prev ELSE SubSeq(prev, 1, Len(prev) - 1)

\* prev.slice(0, -1)
DeleteChar(prev) ==
    IF prev = <<>> THEN <<>> ELSE SubSeq(prev, 1, Len(prev) - 1)

\* Mutant: the index is advanced without the modulo, prev + 1.
NextPhraseIndexNoWrap(prev, n) == prev + 1

\* Mutant: the index wraps one step late, (prev + 1) % (phrases.length + 1).
NextPhraseIndexLateWrap(prev, n) == (prev + 1) % (n + 1)

\* (prev + 1) % phrases.length
NextPhraseIndex(prev, n) ==
    IF prev = NaN \/ n = 0 THEN NaN ELSE (prev + 1) % n

\* The id setTimeout returns after it returned last.
NextTimerId(last) == (last % MaxTimerId) + 1

\* Mutant: the cleanup clears nothing.
ClearTimeoutNothing(ts, handle) == ts

\* clearTimeout(handle) on the pending timers; handle 0 stands for no cleanup.
ClearTimeout(ts, handle) == { t \in ts : t.id # handle }

\* The timer setTimeout queues: the callback's kind, its delay, and what the
\* callback's closure holds of the render that scheduled it.
NewTimer(id, kind, delay, deleting, currentPhrase) ==
    [id |-> id, kind |-> kind, delay |-> delay,
     isDeleting |-> deleting, currentPhrase |-> currentPhrase]

----------------------------------------------------------------------------
(* The state after construction *)

\* No request has reached the endpoint.
NoRequest ==
    [method |-> "NONE", body |-> "malformed",
     name |-> Undefined, email |-> Undefined, message |-> Undefined]

NoResponse == [status |-> 0, success |-> "absent", message |-> "", errors |-> {}]

RouteIdle ==
    /\ request = NoRequest
    /\ routePc = "idle"
    /\ response = NoResponse
    /\ mailCalls = <<>>
    /\ mailOutcome = "none"

\* useState('idle'), useState(''), empty fields, nothing under way.
FreshForm ==
    /\ formData = "empty"
    /\ isSubmitting = FALSE
    /\ submitStatus = "idle"
    /\ errorMessage = ""
    /\ validating = 0
    /\ fetching = 0
    /\ readingError = 0
    /\ hideTimers = 0
    /\ submits = 0

\* The page shows no contact form.
ContactAbsent == contactMounted = FALSE /\ FreshForm

\* The page shows no theme toggle.
ToggleAbsent ==
    /\ theme = "system"
    /\ systemTheme = "light"
    /\ togglesMounted = {}
    /\ clicks = 0
    /\ themeLog = <<>>

FreshState ==
    /\ currentPhraseIndex = 0
    /\ currentText = <<>>
    /\ isDeleting = FALSE
    /\ isPaused = FALSE

InitWith(lists, configs) ==
    /\ phrases \in lists
    /\ \E cfg \in configs :
          /\ typingSpeed = cfg.typingSpeed
          /\ deletingSpeed = cfg.deletingSpeed
          /\ pauseDuration = cfg.pauseDuration
    /\ FreshState
    /\ mounted = TRUE
    /\ effectPending = TRUE
    /\ timers = {}
    /\ cleanup = 0
    /\ lastTimerId = 0
    /\ instance = 1
    /\ threw = FALSE
    /\ replacements = 0
    /\ RouteIdle
    /\ ContactAbsent
    /\ ToggleAbsent

Init == InitWith(PhraseLists, Configs)

----------------------------------------------------------------------------
(* The effect *)

\* const t = setTimeout(..); return () => clearTimeout(t)
SetTimeout(pending, kind, delay, currentPhrase) ==
    LET id == NextTimerId(lastTimerId) IN
    /\ timers' = pending \cup { NewTimer(id, kind, delay, isDeleting, currentPhrase) }
    /\ cleanup' = id
    /\ lastTimerId' = id

\* Mutant: the tick timer always takes the typing speed.
TickDelayTypingOnly == typingSpeed

\* isDeleting ? deletingSpeed : typingSpeed
TickDelay == IF isDeleting THEN deletingSpeed ELSE typingSpeed

\* Mutant: the test for a finished phrase lacks !isDeleting.
RunEffectRepausing ==
    /\ mounted
    /\ effectPending
    /\ LET pending == ClearTimeout(timers, cleanup)
           currentPhrase == PhraseAt(phrases, currentPhraseIndex)
       IN  IF isPaused THEN
               /\ SetTimeout(pending, "pause", pauseDuration, currentPhrase)
               /\ effectPending' = FALSE
               /\ UNCHANGED state
           ELSE IF currentText = currentPhrase THEN
               /\ isPaused' = TRUE
               /\ effectPending' = TRUE
               /\ timers' = pending
               /\ cleanup' = 0
               /\ UNCHANGED <<currentPhraseIndex, currentText, isDeleting, lastTimerId>>
           ELSE IF isDeleting /\ currentText = <<>> THEN
               /\ isDeleting' = FALSE
               /\ currentPhraseIndex' = NextPhraseIndex(currentPhraseIndex, Len(phrases))
               /\ effectPending' = TRUE
               /\ timers' = pending
               /\ cleanup' = 0
               /\ UNCHANGED <<currentText, isPaused, lastTimerId>>
           ELSE
               /\ SetTimeout(pending, "tick", TickDelay, currentPhrase)
               /\ effectPending' = FALSE
               /\ UNCHANGED state
    /\ UNCHANGED <<props, mounted, instance, threw>>
    /\ UNCHANGED <<route, form, toggle, replacements>>

\* One run of the effect: the cleanup the previous run returned, then the body.
RunEffect ==
    /\ mounted
    /\ effectPending
    /\ LET pending == ClearTimeout(timers, cleanup)
           currentPhrase == PhraseAt(phrases, currentPhraseIndex)
       IN  IF isPaused THEN
               /\ SetTimeout(pending, "pause", pauseDuration, currentPhrase)
               /\ effectPending' = FALSE
               /\ UNCHANGED state
           ELSE IF ~isDeleting /\ currentText = currentPhrase THEN
               /\ isPaused' = TRUE
               /\ effectPending' = TRUE
               /\ timers' = pending
               /\ cleanup' = 0
               /\ UNCHANGED <<currentPhraseIndex, currentText, isDeleting, lastTimerId>>
           ELSE IF isDeleting /\ currentText = <<>> THEN
               /\ isDeleting' = FALSE
               /\ currentPhraseIndex' = NextPhraseIndex(currentPhraseIndex, Len(phrases))
               /\ effectPending' = TRUE
               /\ timers' = pending
               /\ cleanup' = 0
               /\ UNCHANGED <<currentText, isPaused, lastTimerId>>
           ELSE
               /\ SetTimeout(pending, "tick", TickDelay, currentPhrase)
               /\ effectPending' = FALSE
               /\ UNCHANGED state
    /\ UNCHANGED <<props, mounted, instance, threw>>
    /\ UNCHANGED <<route, form, toggle, replacements>>

----------------------------------------------------------------------------
(* The timer callbacks *)

\* Mutant: the pause callback also clears the text, setCurrentText('').
PauseFireClearingText ==
    /\ ~effectPending
    /\ \E t \in timers :
          /\ t.kind = "pause"
          /\ timers' = timers \ {t}
          /\ IF mounted THEN
                 /\ isPaused' = FALSE
                 /\ isDeleting' = TRUE
                 /\ currentText' = <<>>
                 /\ effectPending' = TRUE
             ELSE
                 UNCHANGED <<isPaused, isDeleting, currentText, effectPending>>
    /\ UNCHANGED <<props, currentPhraseIndex, mounted, cleanup,
                   lastTimerId, instance, threw>>
    /\ UNCHANGED <<route, form, toggle, replacements>>

\* Mutant: the pause callback only calls setIsPaused(false).
PauseFireNoDeleting ==
    /\ ~effectPending
    /\ \E t \in timers :
          /\ t.kind = "pause"
          /\ timers' = timers \ {t}
          /\ IF mounted THEN
                 /\ isPaused' = FALSE
                 /\ effectPending' = isPaused
             ELSE
                 UNCHANGED <<isPaused, effectPending>>
    /\ UNCHANGED <<props, currentPhraseIndex, currentText, isDeleting, mounted,
                   cleanup, lastTimerId, instance, threw>>
    /\ UNCHANGED <<route, form, toggle, replacements>>

\* The pause timer fires: setIsPaused(false); setIsDeleting(true).  React 18
\* (Next.js 14) batches the two updates of one callback into one render.
PauseFire ==
    /\ ~effectPending
    /\ \E t \in timers :
          /\ t.kind = "pause"
          /\ timers' = timers \ {t}
          /\ IF mounted THEN
                 /\ isPaused' = FALSE
                 /\ isDeleting' = TRUE
                 /\ effectPending' = (isPaused \/ ~isDeleting)
             ELSE
                 UNCHANGED <<isPaused, isDeleting, effectPending>>
    /\ UNCHANGED <<props, currentPhraseIndex, currentText, mounted, cleanup,
                   lastTimerId, instance, threw>>
    /\ UNCHANGED <<route, form, toggle, replacements>>

\* The tick timer fires: setCurrentText with the deleting or the typing updater.
\* The typing updater calls currentPhrase.slice, which throws a TypeError when
\* currentPhrase is undefined; the error escapes the render and React unmounts
\* the tree, running the effect's cleanup.
TickFire ==
    /\ ~effectPending
    /\ \E t \in timers :
          /\ t.kind = "tick"
          /\ IF ~mounted THEN
                 /\ timers' = timers \ {t}
                 /\ UNCHANGED <<currentText, effectPending, mounted, cleanup, threw>>
             ELSE IF t.isDeleting THEN
                 /\ currentText' = DeleteChar(currentText)
                 /\ effectPending' = (currentText' # currentText)
                 /\ timers' = timers \ {t}
                 /\ UNCHANGED <<mounted, cleanup, threw>>
             ELSE IF t.currentPhrase = Undefined THEN
                 /\ threw' = TRUE
                 /\ mounted' = FALSE
                 /\ timers' = ClearTimeout(timers \ {t}, cleanup)
                 /\ cleanup' = 0
                 /\ UNCHANGED <<currentText, effectPending>>
             ELSE
                 /\ currentText' = TypeChar(t.currentPhrase, currentText)
                 /\ effectPending' = (currentText' # currentText)
                 /\ timers' = timers \ {t}
                 /\ UNCHANGED <<mounted, cleanup, threw>>
    /\ UNCHANGED <<props, currentPhraseIndex, isDeleting, isPaused,
                   lastTimerId, instance>>
    /\ UNCHANGED <<route, form, toggle, replacements>>

----------------------------------------------------------------------------
(* The parent: new props, unmount, mount *)

\* Mutant: phrases and the speeds are missing from the effect's dependencies,
\* so new props leave the scheduled timer and its closure in place.
ReconfigureKeepingTimer(ps, cfg) ==
    /\ mounted
    /\ ~effectPending
    /\ phrases' = ps
    /\ typingSpeed' = cfg.typingSpeed
    /\ deletingSpeed' = cfg.deletingSpeed
    /\ pauseDuration' = cfg.pauseDuration
    /\ UNCHANGED <<state, mounted, effectPending, timers, cleanup, lastTimerId,
                   instance, threw>>
    /\ UNCHANGED <<route, form, toggle, replacements>>

\* Mutant: new props reset the text and the phase flags.
ReconfigureResetting(ps, cfg) ==
    /\ mounted
    /\ ~effectPending
    /\ phrases' = ps
    /\ typingSpeed' = cfg.typingSpeed
    /\ deletingSpeed' = cfg.deletingSpeed
    /\ pauseDuration' = cfg.pauseDuration
    /\ currentText' = <<>>
    /\ isPaused' = FALSE
    /\ isDeleting' = FALSE
    /\ effectPending' = TRUE
    /\ UNCHANGED <<currentPhraseIndex, mounted, timers, cleanup, lastTimerId,
                   instance, threw>>
    /\ UNCHANGED <<route, form, toggle, replacements>>

\* The parent renders again with a freshly built phrase list and speeds (Hero
\* passes an array literal, a new array on every render), so a dependency of
\* the effect has changed.
Reconfigure(ps, cfg) ==
    /\ mounted
    /\ ~effectPending
    /\ phrases' = ps
    /\ typingSpeed' = cfg.typingSpeed
    /\ deletingSpeed' = cfg.deletingSpeed
    /\ pauseDuration' = cfg.pauseDuration
    /\ effectPending' = TRUE
    /\ UNCHANGED <<state, mounted, timers, cleanup, lastTimerId, instance, threw>>
    /\ UNCHANGED <<route, form, toggle, replacements>>

\* Mutant: the effect returns no cleanup, so unmount clears no timer.
UnmountWithoutCleanup ==
    /\ mounted
    /\ ~effectPending
    /\ mounted' = FALSE
    /\ UNCHANGED <<props, state, effectPending, timers, cleanup, lastTimerId,
                   instance, threw>>
    /\ UNCHANGED <<route, form, toggle, replacements>>

\* Unmount runs the cleanup of the last effect run.
Unmount ==
    /\ mounted
    /\ ~effectPending
    /\ mounted' = FALSE
    /\ timers' = ClearTimeout(timers, cleanup)
    /\ cleanup' = 0
    /\ UNCHANGED <<props, state, effectPending, lastTimerId, instance, threw>>
    /\ UNCHANGED <<route, form, toggle, replacements>>

\* Mutant: the state lives outside the instance and survives a remount.
MountKeepingState(ps, cfg) ==
    /\ ~mounted
    /\ instance < MaxInstances
    /\ instance' = instance + 1
    /\ mounted' = TRUE
    /\ phrases' = ps
    /\ typingSpeed' = cfg.typingSpeed
    /\ deletingSpeed' = cfg.deletingSpeed
    /\ pauseDuration' = cfg.pauseDuration
    /\ effectPending' = TRUE
    /\ cleanup' = 0
    /\ threw' = FALSE
    /\ UNCHANGED <<state, timers, lastTimerId>>
    /\ UNCHANGED <<route, form, toggle, replacements>>

\* A new instance: useState(0), useState(''), useState(false), useState(false).
Mount(ps, cfg) ==
    /\ ~mounted
    /\ instance < MaxInstances
    /\ instance' = instance + 1
    /\ mounted' = TRUE
    /\ phrases' = ps
    /\ typingSpeed' = cfg.typingSpeed
    /\ deletingSpeed' = cfg.deletingSpeed
    /\ pauseDuration' = cfg.pauseDuration
    /\ currentPhraseIndex' = 0
    /\ currentText' = <<>>
    /\ isDeleting' = FALSE
    /\ isPaused' = FALSE
    /\ effectPending' = TRUE
    /\ cleanup' = 0
    /\ threw' = FALSE
    /\ UNCHANGED <<timers, lastTimerId>>
    /\ UNCHANGED <<route, form, toggle, replacements>>

Rerender == \E ps \in PhraseLists, cfg \in Configs : Reconfigure(ps, cfg)

Remount == \E ps \in PhraseLists, cfg \in Configs : Mount(ps, cfg)

Next == RunEffect \/ TickFire \/ PauseFire \/ Rerender \/ Unmount \/ Remount

Spec == Init /\ [][Next]_vars

----------------------------------------------------------------------------
(* The cycler on a phrase list that is never replaced: the parent may render *)
(* again with other speeds and may unmount the component.                    *)

NonEmptyLists == PhraseLists \ { <<>> }

ValidConfigs == { cfg \in Configs : ValidConfig(cfg) }

InitFixed == InitWith(NonEmptyLists, Configs)

RerenderSamePhrases == \E cfg \in Configs : Reconfigure(phrases, cfg)

NextFixed == RunEffect \/ TickFire \/ PauseFire \/ RerenderSamePhrases \/ Unmount

SpecFixed == InitFixed /\ [][NextFixed]_vars

(* The cycler left alone: no teardown, no new props.  A queued timeout fires  *)
(* and a pending effect runs, which is what the browser's event loop and      *)
(* React's scheduler guarantee.                                               *)

InitLive == InitWith(NonEmptyLists, ValidConfigs)

NextLive == RunEffect \/ TickFire \/ PauseFire

SpecLive ==
    /\ InitLive
    /\ [][NextLive]_vars
    /\ WF_vars(RunEffect)
    /\ WF_vars(TickFire)
    /\ WF_vars(PauseFire)

(* The cycler whose parent replaces the phrase list while it runs, by a     *)
(* list that still holds the current index, a bounded number of times.      *)

ReplacePhrases ==
    /\ mounted
    /\ ~effectPending
    /\ replacements < MaxReplacements
    /\ replacements' = replacements + 1
    /\ \E ps \in NonEmptyLists :
          /\ ps # phrases
          /\ currentPhraseIndex < Len(ps)
          /\ phrases' = ps
    /\ effectPending' = TRUE
    /\ UNCHANGED <<typingSpeed, deletingSpeed, pauseDuration, state, mounted,
                   timers, cleanup, lastTimerId, instance, threw>>
    /\ UNCHANGED <<route, form, toggle>>

NextReplace == RunEffect \/ TickFire \/ PauseFire \/ ReplacePhrases

SpecReplace ==
    /\ InitLive
    /\ [][NextReplace]_vars
    /\ WF_vars(RunEffect)
    /\ WF_vars(TickFire)
    /\ WF_vars(PauseFire)

(* The scenarios of the specification: the fixed lists above and the list   *)
(* ["hi"], started with any configuration above or with the scenario's own   *)
(* 10 ms, 10 ms, 100 ms.                                                     *)

Hi == << <<"h", "i">> >>

AbCd == << <<"a", "b">>, <<"c", "d">> >>

ScenarioLists == NonEmptyLists \cup { Hi, AbCd }

ScenarioConfigs ==
    Configs \cup { [typingSpeed |-> 10, deletingSpeed |-> 10, pauseDuration |-> 100] }

InitScenario == InitWith(ScenarioLists, ScenarioConfigs)

SpecScenario == InitScenario /\ [][NextFixed]_vars

----------------------------------------------------------------------------
(* The contact endpoint, src/unnamed/part_002: POST /api/contact reads the  *)
(* body, validates it against contactSchema, sanitizes the three fields,    *)
(* hands a mail to resend.emails.send and answers; GET answers 405.  A      *)
(* string is a sequence of one-character strings; the literal pieces of a   *)
(* template are single elements of several characters.  A step of the       *)
(* handler runs from one await to the next.                                 *)

\* contactSchema: name min(2) max(50), message min(10) max(1000).
NameMin == 2

NameMax == 50

MessageMin == 10

MessageMax == 1000

\* A field that holds a JSON value other than a string.
NotAString == << "number" >>

IsString(v) == v # Undefined /\ v # NotAString

\* The string of n characters c.
Rep(c, n) == [i \in 1..n |-> c]

\* The character classes of z.string().email(), over the characters of the
\* inputs below: letters, and what a local part may hold besides.
Letters == { "a", "b", "c", "A", "B" }

LocalChars == Letters \cup { ".", "_", "+", "-" }

\* z.string().email(): one "@"; a local part of letters, "_", "+", "-" and
\* ".", not starting or ending with "." ; a domain of labels of letters and
\* "-", each starting with a letter and ending with ".", then two or more
\* letters; no ".." anywhere.
IsEmail(v) ==
    /\ IsString(v)
    /\ \E at \in 1..Len(v) :
          /\ v[at] = "@"
          /\ at > 1
          /\ \A i \in 1..(at - 1) : v[i] \in LocalChars
          /\ v[1] # "."
          /\ v[at - 1] # "."
          /\ \A i \in 1..(Len(v) - 1) : ~(v[i] = "." /\ v[i + 1] = ".")
          /\ \A i \in (at + 1)..Len(v) : v[i] \in Letters \cup { ".", "-" }
          /\ at < Len(v)
          /\ v[at + 1] \in Letters
          /\ \A i \in (at + 1)..(Len(v) - 1) : v[i] = "." => v[i + 1] \in Letters
          /\ \E dot \in (at + 2)..(Len(v) - 2) :
                /\ v[dot] = "."
                /\ \A i \in (dot + 1)..Len(v) : v[i] \in Letters

NameOK(v) == IsString(v) /\ Len(v) >= NameMin /\ Len(v) <= NameMax

MessageOK(v) == IsString(v) /\ Len(v) >= MessageMin /\ Len(v) <= MessageMax

\* Mutant: max(50) read as "less than 50 characters".
SafeParseExclusiveMax(req) ==
    LET fieldErrors ==
            ( IF IsString(req.name) /\ Len(req.name) >= NameMin
                                     /\ Len(req.name) < NameMax
                THEN {} ELSE { "name" } )
            \cup ( IF IsEmail(req.email) THEN {} ELSE { "email" } )
            \cup ( IF MessageOK(req.message) THEN {} ELSE { "message" } )
    IN  IF req.body # "object"
        THEN [success |-> FALSE, fieldErrors |-> {}]
        ELSE [success |-> fieldErrors = {}, fieldErrors |-> fieldErrors]

\* contactSchema.safeParse(body), with error.flatten().fieldErrors as the set
\* of the fields that failed; a body that is no object fails as a whole.
SafeParse(req) ==
    LET fieldErrors ==
            ( IF NameOK(req.name) THEN {} ELSE { "name" } )
            \cup ( IF IsEmail(req.email) THEN {} ELSE { "email" } )
            \cup ( IF MessageOK(req.message) THEN {} ELSE { "message" } )
    IN  IF req.body # "object"
        THEN [success |-> FALSE, fieldErrors |-> {}]
        ELSE [success |-> fieldErrors = {}, fieldErrors |-> fieldErrors]

Whitespace == { " ", "\n" }

RECURSIVE TrimStart(_)
TrimStart(str) ==
    IF str # <<>> /\ Head(str) \in Whitespace THEN TrimStart(Tail(str)) ELSE str

RECURSIVE TrimEnd(_)
TrimEnd(str) ==
    IF str # <<>> /\ str[Len(str)] \in Whitespace
    THEN TrimEnd(SubSeq(str, 1, Len(str) - 1))
    ELSE str

\* str.trim()
Trim(str) == TrimEnd(TrimStart(str))

NotAngle(c) == c \notin { "<", ">" }

\* str.replace(/[<>]/g, '')
StripAngles(str) == SelectSeq(str, NotAngle)

\* str.toLowerCase(), on the upper-case letters of the inputs.
ToLowerCase(str) ==
    [i \in 1..Len(str) |->
        IF str[i] = "A" THEN "a" ELSE IF str[i] = "B" THEN "b" ELSE str[i]]

\* str.replace(/\n/g, '<br>')
BreakLines(str) ==
    [i \in 1..Len(str) |-> IF str[i] = "\n" THEN "<br>" ELSE str[i]]

\* Mutant: the fields are trimmed and nothing is removed.
SanitizeTextTrimOnly(str) == Trim(str)

SanitizeText(str) == StripAngles(Trim(str))

SanitizeEmail(str) == ToLowerCase(Trim(str))

\* The argument of resend.emails.send.
Mail(sanitizedName, sanitizedEmail, sanitizedMessage) ==
    [from    |-> "onboarding@resend.dev",
     to      |-> "timlee.dev@gmail.com",
     replyTo |-> sanitizedEmail,
     subject |-> << "Portfolio Contact from " >> \o sanitizedName,
     text    |-> << "Name: " >> \o sanitizedName
                 \o << "\nEmail: " >> \o sanitizedEmail
                 \o << "\n\nMessage:\n" >> \o sanitizedMessage,
     html    |-> << "<h2>", "New Contact Form Submission", "</h2>",
                    "<p>", "<strong>", "From:", "</strong>", " " >>
                 \o sanitizedName
                 \o << "</p>", "<p>", "<strong>", "Email:", "</strong>", " " >>
                 \o sanitizedEmail
                 \o << "</p>", "<p>", "<strong>", "Message:", "</strong>", "</p>",
                       "<p>" >>
                 \o BreakLines(sanitizedMessage)
                 \o << "</p>" >>]

\* The requests: names, emails and messages on both sides of every limit of
\* the schema, with markup, blanks and upper case, missing or of another type.
Names ==
    { Rep("a", NameMin - 1), Rep("a", NameMin), Rep("a", NameMax),
      Rep("a", NameMax + 1), << " ", "<", "A", ">", " " >>, << " ", " " >>,
      Undefined, NotAString }

Emails ==
    { << "a", "@", "b", ".", "c", "c" >>, << "A", ".", "b", "@", "B", ".", "c", "c" >>,
      << "a", "b", ".", "c", "c" >>, << " ", "a", "@", "b", ".", "c", "c" >>,
      << "a", "@", "b", ".", "c" >>, Undefined }

Messages ==
    { Rep("m", MessageMin - 1), Rep("m", MessageMin), Rep("m", MessageMax),
      Rep("m", MessageMax + 1),
      << " ", "<", "b", ">", "a", "b", "\n", "c", "<", "/", "b", ">", " " >>,
      Undefined }

Requests ==
    { [method |-> "POST", body |-> "object", name |-> n, email |-> e, message |-> m] :
          n \in Names, e \in Emails, m \in Messages }
    \cup { [method |-> "POST", body |-> b,
            name |-> Undefined, email |-> Undefined, message |-> Undefined] :
               b \in { "malformed", "nonobject" } }
    \cup { [method |-> "GET", body |-> "malformed",
            name |-> Undefined, email |-> Undefined, message |-> Undefined] }

\* The page shows no cycler.
CyclerAbsent ==
    /\ phrases = <<>>
    /\ typingSpeed = DefaultTypingSpeed
    /\ deletingSpeed = DefaultDeletingSpeed
    /\ pauseDuration = DefaultPauseDuration
    /\ FreshState
    /\ mounted = FALSE
    /\ effectPending = FALSE
    /\ timers = {}
    /\ cleanup = 0
    /\ lastTimerId = 0
    /\ instance = 1
    /\ threw = FALSE
    /\ replacements = 0

InitRoute ==
    /\ request \in Requests
    /\ routePc = "received"
    /\ response = NoResponse
    /\ mailCalls = <<>>
    /\ mailOutcome = "none"
    /\ CyclerAbsent
    /\ ContactAbsent
    /\ ToggleAbsent

\* NextResponse.json(content, { status })
Respond(status, success, message, errors) ==
    /\ response' = [status |-> status, success |-> success,
                    message |-> message, errors |-> errors]
    /\ routePc' = "done"

\* export async function GET()
GET ==
    /\ routePc = "received"
    /\ request.method = "GET"
    /\ Respond(405, "absent", "Method not allowed", {})
    /\ UNCHANGED <<request, mailCalls, mailOutcome>>
    /\ UNCHANGED <<cycler, form, toggle>>

\* POST, await request.json(): a body that is no JSON rejects, and the outer
\* catch answers 500.
POSTReadBody ==
    /\ routePc = "received"
    /\ request.method = "POST"
    /\ IF request.body = "malformed"
       THEN Respond(500, "false",
                    "An unexpected error occurred. Please try again later.", {})
       ELSE routePc' = "parsed" /\ UNCHANGED response
    /\ UNCHANGED <<request, mailCalls, mailOutcome>>
    /\ UNCHANGED <<cycler, form, toggle>>

\* Mutant: the mail is handed over before the validation result is looked at.
POSTSendThenValidate ==
    /\ routePc = "parsed"
    /\ LET validationResult == SafeParse(request)
           mail == Mail(SanitizeText(request.name), SanitizeEmail(request.email),
                        SanitizeText(request.message))
       IN  /\ mailCalls' = Append(mailCalls, mail)
           /\ IF ~validationResult.success
              THEN Respond(400, "false", "Validation failed",
                           validationResult.fieldErrors)
              ELSE routePc' = "sending" /\ UNCHANGED response
    /\ UNCHANGED <<request, mailOutcome>>
    /\ UNCHANGED <<cycler, form, toggle>>

\* POST from safeParse to the call of resend.emails.send: 400 on a failed
\* validation, else sanitize and hand the mail over.
POSTValidateAndSend ==
    /\ routePc = "parsed"
    /\ LET validationResult == SafeParse(request)
       IN  IF ~validationResult.success
           THEN /\ Respond(400, "false", "Validation failed",
                           validationResult.fieldErrors)
                /\ UNCHANGED mailCalls
           ELSE LET sanitizedName == SanitizeText(request.name)
                    sanitizedEmail == SanitizeEmail(request.email)
                    sanitizedMessage == SanitizeText(request.message)
                IN  /\ mailCalls' = Append(mailCalls,
                                       Mail(sanitizedName, sanitizedEmail,
                                            sanitizedMessage))
                    /\ routePc' = "sending"
                    /\ UNCHANGED response
    /\ UNCHANGED <<request, mailOutcome>>
    /\ UNCHANGED <<cycler, form, toggle>>

\* Mutant: no inner try/catch, so a rejected mail call reaches the outer catch.
POSTRespondExposing ==
    /\ routePc = "sending"
    /\ \E sent \in BOOLEAN :
          /\ mailOutcome' = IF sent THEN "sent" ELSE "threw"
          /\ IF sent
             THEN Respond(200, "true",
                          "Message received successfully! Thank you for reaching out.",
                          {})
             ELSE Respond(500, "false",
                          "An unexpected error occurred. Please try again later.", {})
    /\ UNCHANGED <<request, mailCalls>>
    /\ UNCHANGED <<cycler, form, toggle>>

\* POST after the mail call settled: a rejection is caught and logged, and
\* either way the answer is 200.
POSTRespond ==
    /\ routePc = "sending"
    /\ \E sent \in BOOLEAN : mailOutcome' = IF sent THEN "sent" ELSE "threw"
    /\ Respond(200, "true",
               "Message received successfully! Thank you for reaching out.", {})
    /\ UNCHANGED <<request, mailCalls>>
    /\ UNCHANGED <<cycler, form, toggle>>

NextRoute == GET \/ POSTReadBody \/ POSTValidateAndSend \/ POSTRespond

SpecRoute == InitRoute /\ [][NextRoute]_vars

----------------------------------------------------------------------------
(* The contact form, src/components/Contact.tsx: react-hook-form validates  *)
(* the fields and calls onSubmit, which posts them to /api/contact and      *)
(* shows the outcome in submitStatus and errorMessage.  A step runs from    *)
(* one await to the next; several submissions may be under way, so the      *)
(* model counts those at each await.  State setters of an unmounted         *)
(* component do nothing.                                                    *)

\* What the fields hold: nothing, values the schema rejects, values it accepts.
FormContents == { "empty", "invalid", "valid" }

\* The bodies an error response of the endpoint or of the platform carries:
\* JSON with a message, JSON without one, or no JSON at all.
ErrorBodies ==
    { [json |-> TRUE, message |-> "Validation failed"],
      [json |-> TRUE,
       message |-> "An unexpected error occurred. Please try again later."],
      [json |-> TRUE, message |-> ""],
      [json |-> FALSE, message |-> ""] }

InitContact ==
    /\ contactMounted = TRUE
    /\ FreshForm
    /\ CyclerAbsent
    /\ RouteIdle
    /\ ToggleAbsent

\* Mutant: the button reads disabled={submitStatus === 'loading'}.
SubmitDisabledByStatus == submitStatus = "loading"

\* The submit button's disabled={isSubmitting || submitStatus === 'loading'}.
SubmitDisabled == isSubmitting \/ submitStatus = "loading"

\* The user types into the fields, which are never disabled.
ContactEdit ==
    /\ contactMounted
    /\ \E d \in FormContents \ { formData } : formData' = d
    /\ UNCHANGED <<contactMounted, isSubmitting, submitStatus, errorMessage,
                   validating, fetching, readingError, hideTimers, submits>>
    /\ UNCHANGED <<cycler, route, toggle>>

\* The user submits through the enabled button: handleSubmit sets
\* isSubmitting and starts the validation of the fields.
HandleSubmit ==
    /\ contactMounted
    /\ ~SubmitDisabled
    /\ submits < MaxSubmits
    /\ submits' = submits + 1
    /\ isSubmitting' = TRUE
    /\ validating' = validating + 1
    /\ UNCHANGED <<contactMounted, formData, submitStatus, errorMessage,
                   fetching, readingError, hideTimers>>
    /\ UNCHANGED <<cycler, route, toggle>>

\* The validation settled.  Rejected fields end the submission; accepted
\* fields start onSubmit, up to its await of fetch('/api/contact').
SubmitValidated ==
    /\ validating > 0
    /\ validating' = validating - 1
    /\ IF formData = "valid" THEN
           /\ fetching' = fetching + 1
           /\ IF contactMounted
              THEN submitStatus' = "loading" /\ errorMessage' = ""
              ELSE UNCHANGED <<submitStatus, errorMessage>>
           /\ UNCHANGED isSubmitting
       ELSE
           /\ isSubmitting' = IF contactMounted THEN FALSE ELSE isSubmitting
           /\ UNCHANGED <<fetching, submitStatus, errorMessage>>
    /\ UNCHANGED <<contactMounted, formData, readingError, hideTimers, submits>>
    /\ UNCHANGED <<cycler, route, toggle>>

\* Mutant: the success path does not call reset().
FetchResolvesKeepingFields ==
    /\ fetching > 0
    /\ fetching' = fetching - 1
    /\ \E ok \in BOOLEAN :
          IF ok THEN
              /\ hideTimers' = hideTimers + 1
              /\ IF contactMounted
                 THEN /\ submitStatus' = "success"
                      /\ isSubmitting' = FALSE
                 ELSE UNCHANGED <<submitStatus, isSubmitting>>
              /\ UNCHANGED <<readingError, formData>>
          ELSE
              /\ readingError' = readingError + 1
              /\ UNCHANGED <<hideTimers, submitStatus, formData, isSubmitting>>
    /\ UNCHANGED <<contactMounted, errorMessage, validating, submits>>
    /\ UNCHANGED <<cycler, route, toggle>>

\* fetch resolved.  response.ok: success, reset(), the 5 s auto-hide timeout.
\* Otherwise onSubmit awaits response.json().
FetchResolves ==
    /\ fetching > 0
    /\ fetching' = fetching - 1
    /\ \E ok \in BOOLEAN :
          IF ok THEN
              /\ hideTimers' = hideTimers + 1
              /\ IF contactMounted
                 THEN /\ submitStatus' = "success"
                      /\ formData' = "empty"
                      /\ isSubmitting' = FALSE
                 ELSE UNCHANGED <<submitStatus, formData, isSubmitting>>
              /\ UNCHANGED readingError
          ELSE
              /\ readingError' = readingError + 1
              /\ UNCHANGED <<hideTimers, submitStatus, formData, isSubmitting>>
    /\ UNCHANGED <<contactMounted, errorMessage, validating, submits>>
    /\ UNCHANGED <<cycler, route, toggle>>

\* The catch of onSubmit: setSubmitStatus('error'), setErrorMessage(message),
\* and handleSubmit ends the submission.
Catch(message) ==
    IF contactMounted
    THEN /\ submitStatus' = "error"
         /\ errorMessage' = message
         /\ isSubmitting' = FALSE
    ELSE UNCHANGED <<submitStatus, errorMessage, isSubmitting>>

\* fetch rejected: the network failed.
FetchRejects ==
    /\ fetching > 0
    /\ fetching' = fetching - 1
    /\ Catch("Failed to fetch")
    /\ UNCHANGED <<contactMounted, formData, validating, readingError,
                   hideTimers, submits>>
    /\ UNCHANGED <<cycler, route, toggle>>

\* The body of an error response was read: throw new Error(errorData.message
\* || 'Failed to send message'), or the SyntaxError of response.json().
ErrorBodyRead ==
    /\ readingError > 0
    /\ readingError' = readingError - 1
    /\ \E errorData \in ErrorBodies :
          Catch(IF ~errorData.json THEN "Unexpected token"
                ELSE IF errorData.message # "" THEN errorData.message
                ELSE "Failed to send message")
    /\ UNCHANGED <<contactMounted, formData, validating, fetching,
                   hideTimers, submits>>
    /\ UNCHANGED <<cycler, route, toggle>>

\* An auto-hide timeout fires: setSubmitStatus('idle').
HideFire ==
    /\ hideTimers > 0
    /\ hideTimers' = hideTimers - 1
    /\ submitStatus' = IF contactMounted THEN "idle" ELSE submitStatus
    /\ UNCHANGED <<contactMounted, formData, isSubmitting, errorMessage,
                   validating, fetching, readingError, submits>>
    /\ UNCHANGED <<cycler, route, toggle>>

\* The page drops the form; onSubmit registers nothing to undo.
ContactUnmount ==
    /\ contactMounted
    /\ contactMounted' = FALSE
    /\ UNCHANGED <<formData, isSubmitting, submitStatus, errorMessage,
                   validating, fetching, readingError, hideTimers, submits>>
    /\ UNCHANGED <<cycler, route, toggle>>

NextContact ==
    \/ ContactEdit
    \/ HandleSubmit
    \/ SubmitValidated
    \/ FetchResolves
    \/ FetchRejects
    \/ ErrorBodyRead
    \/ HideFire
    \/ ContactUnmount

SpecContact == InitContact /\ [][NextContact]_vars

----------------------------------------------------------------------------
(* The theme toggle, src/unnamed/part_005: the navigation renders two       *)
(* ThemeToggle buttons over the one theme that next-themes stores.  The     *)
(* provider (src/components/Contact.tsx, ThemeProvider) starts from         *)
(* 'system' unless a theme is stored, and resolves 'system' to the          *)
(* system's preference.                                                     *)

Themes == { "system", "light", "dark" }

SystemThemes == { "light", "dark" }

\* The two <ThemeToggle /> of the navigation bar.
ToggleInstances == { "desktop", "mobile" }

\* next-themes' resolvedTheme: what the page shows.
Resolved(stored, system) == IF stored = "system" THEN system ELSE stored

LogEntry == [theme |-> theme, systemTheme |-> systemTheme,
             resolved |-> Resolved(theme, systemTheme)]

InitTheme ==
    /\ theme \in Themes
    /\ systemTheme \in SystemThemes
    /\ togglesMounted = {}
    /\ clicks = 0
    /\ themeLog = << LogEntry >>
    /\ CyclerAbsent
    /\ RouteIdle
    /\ ContactAbsent

\* useEffect(() => { setMounted(true); }, []) of one instance.
ToggleMountEffect ==
    /\ \E i \in ToggleInstances \ togglesMounted :
          togglesMounted' = togglesMounted \cup { i }
    /\ UNCHANGED <<theme, systemTheme, clicks, themeLog>>
    /\ UNCHANGED <<cycler, route, form>>

\* theme === 'dark' ? 'light' : 'dark'
NextTheme(current) == IF current = "dark" THEN "light" ELSE "dark"

\* onClick={toggleTheme} of a mounted instance: setTheme(...).
ToggleTheme ==
    /\ togglesMounted # {}
    /\ clicks < MaxClicks
    /\ clicks' = clicks + 1
    /\ theme' = NextTheme(theme)
    /\ themeLog' = Append(themeLog,
                          [theme |-> theme', systemTheme |-> systemTheme,
                           resolved |-> Resolved(theme', systemTheme)])
    /\ UNCHANGED <<systemTheme, togglesMounted>>
    /\ UNCHANGED <<cycler, route, form>>

\* The system switches between its light and dark appearance.
SystemThemeChange ==
    /\ systemTheme' = IF systemTheme = "dark" THEN "light" ELSE "dark"
    /\ UNCHANGED <<theme, togglesMounted, clicks, themeLog>>
    /\ UNCHANGED <<cycler, route, form>>

NextToggle == ToggleMountEffect \/ ToggleTheme \/ SystemThemeChange

SpecTheme == InitTheme /\ [][NextToggle]_vars

----------------------------------------------------------------------------
(* Vocabulary of the properties *)

\* p is a prefix (of length 0..Len(s)) of the phrase s.
IsPrefix(p, s) ==
    /\ s # Undefined
    /\ Len(p) <= Len(s)
    /\ SubSeq(s, 1, Len(p)) = p

ActivePhrase == PhraseAt(phrases, currentPhraseIndex)

\* The props in force are a valid configuration.
ValidProps == typingSpeed > 0 /\ deletingSpeed > 0 /\ pauseDuration >= 0

IndexInRange == currentPhraseIndex \in 0..(Len(phrases) - 1)

\* The phase the two flags encode.
Typing == ~isPaused /\ ~isDeleting

\* Phrase i (0-based) stands typed to its end.
Completed(i) ==
    /\ currentPhraseIndex = i
    /\ currentText = phrases[i + 1]
    /\ isPaused

\* New props arrived while a timer was pending and the effect has yet to run.
ReconfiguredWhileRunning == mounted /\ effectPending /\ timers # {}

\* The timer kind and the interval that belong to the current phase.
PhaseTimerKind == IF isPaused THEN "pause" ELSE "tick"

PhaseInterval ==
    IF isPaused THEN pauseDuration
    ELSE IF isDeleting THEN deletingSpeed ELSE typingSpeed

\* After the step exactly one timer is pending, it is not one that was pending
\* before, and it is the current phase's timer with the current props' interval.
RescheduledForSamePhase ==
    /\ Cardinality(timers') = 1
    /\ \A t \in timers' :
          /\ t.id \notin { old.id : old \in timers }
          /\ t.kind = PhaseTimerKind
          /\ t.delay = PhaseInterval

----------------------------------------------------------------------------
(* C1: on a phrase list that is never replaced and is not empty, the       *)
(* displayed text is in every reachable state a prefix, of length 0 to the *)
(* phrase's length, of the active phrase phrases[currentPhraseIndex].      *)
C1_PrefixOfActivePhrase == IsPrefix(currentText, ActivePhrase)

\* The second phrase of a list half deleted.
C1_Witness ==
    /\ mounted
    /\ currentPhraseIndex = 1
    /\ isDeleting
    /\ Len(currentText) = 1
    /\ Len(ActivePhrase) = 2

(* C2: left alone on a non-empty list with a valid configuration, the      *)
(* cycler types every phrase of the list to its end again and again, the   *)
(* index moves only from i to (i + 1) mod the list's length, at the end of *)
(* a deletion, and there is always a timer pending or an effect to run.    *)
C2_CyclesForever ==
    /\ \A i \in 0..(MaxPhrases - 1) : []<>(i >= Len(phrases) \/ Completed(i))
    /\ [][currentPhraseIndex' # currentPhraseIndex =>
            /\ isDeleting /\ currentText = <<>>
            /\ currentPhraseIndex' = (currentPhraseIndex + 1) % Len(phrases)]_vars
    /\ [](mounted /\ ~threw /\ (effectPending \/ timers # {}))

\* The list's last phrase was deleted and the index is back at the first.
C2_Witness ==
    /\ Len(phrases) = MaxPhrases
    /\ currentPhraseIndex = 0
    /\ currentText = <<>>
    /\ Typing
    /\ effectPending
    /\ lastTimerId # 0

(* C3: a step that leaves the component unmounted leaves no timer pending, *)
(* and while the component stays unmounted no step changes the displayed   *)
(* text, the phase flags or the phrase index.                              *)
C3_TeardownCancelsTimer ==
    [][~mounted' => /\ timers' = {}
                    /\ (~mounted => UNCHANGED state)]_vars

\* Unmounted in Typing, with a character typed and the tick timer cancelled.
C3_Witness ==
    /\ ~mounted
    /\ ~threw
    /\ Typing
    /\ currentText # <<>>
    /\ timers = {}

(* C4: in every reachable state at most one timer is pending, and a        *)
(* pending timer is the one the latest effect run scheduled, the one its   *)
(* cleanup will clear: the timer of an earlier run has been cleared.       *)
C4_OneTimerOutstanding ==
    /\ Cardinality(timers) <= 1
    /\ \A t \in timers : t.id = cleanup /\ t.id = lastTimerId

\* Paused on a text that is not the active phrase: the list was replaced
\* during the pause, and the one pending timer is the pause timer the effect
\* scheduled again after clearing the earlier one.
C4_Witness ==
    /\ mounted
    /\ isPaused
    /\ IndexInRange
    /\ currentText # ActivePhrase
    /\ \E t \in timers : t.kind = "pause" /\ t.delay = pauseDuration

(* C5: while the phrase list is empty (and the configuration valid) no     *)
(* step throws and no step changes the displayed text, the phase flags or  *)
(* the phrase index.                                                       *)
C5_EmptyListNoOp ==
    [][(mounted /\ phrases = <<>> /\ phrases' = <<>> /\ ValidProps) =>
            (~threw' /\ UNCHANGED state)]_vars

(* C6: a configuration with a zero or negative typing or deleting interval *)
(* is rejected (here on a non-empty phrase list): no component is mounted  *)
(* under it and no tick timer is pending with a zero or negative interval. *)
C6_InvalidConfigRejected ==
    phrases # <<>> =>
        /\ (typingSpeed <= 0 \/ deletingSpeed <= 0) => (~mounted /\ timers = {})
        /\ \A t \in timers : t.kind = "tick" => t.delay > 0

(* C7, as stated: when new props arrive while a timer is pending and the   *)
(* displayed text is not a prefix of the new active phrase, the effect run *)
(* that follows resets the text to empty and the phase to Typing, and the  *)
(* text is a prefix of the active phrase after it.                         *)
C7_ResetOnInvalidPrefix ==
    [][(ReconfiguredWhileRunning /\ ValidProps /\ IndexInRange
            /\ ~IsPrefix(currentText, ActivePhrase)) =>
            /\ currentText' = <<>>
            /\ ~isPaused' /\ ~isDeleting'
            /\ IsPrefix(currentText', PhraseAt(phrases', currentPhraseIndex'))]_vars

(* C7, amended: replacing the phrase list resets nothing.  The step that   *)
(* brings new props leaves text, flags and index as they are, and when the *)
(* text is not a prefix of the new active phrase the effect run that       *)
(* follows only swaps the pending timer for a new one: text, flags and     *)
(* index are unchanged, so the text is still not a prefix after it.        *)
C7_NoResetOnReplace ==
    [][/\ (mounted /\ mounted' /\ props' # props) => UNCHANGED state
       /\ (ReconfiguredWhileRunning /\ ~IsPrefix(currentText, ActivePhrase)) =>
             /\ UNCHANGED state
             /\ Cardinality(timers') = 1
             /\ ~IsPrefix(currentText', PhraseAt(phrases', currentPhraseIndex'))]_vars

\* Running on, after the effect, with a text that is no prefix of the phrase
\* the index points at.
C7_Witness ==
    /\ mounted
    /\ ~effectPending
    /\ timers # {}
    /\ IndexInRange
    /\ currentText # <<>>
    /\ ~IsPrefix(currentText, ActivePhrase)

(* C8: whenever the component is mounted on a non-empty phrase list (with  *)
(* a valid configuration), the phrase index is an integer in               *)
(* 0 .. Len(phrases) - 1, also after the list was replaced by one of       *)
(* another length.                                                         *)
C8_IndexInRange == (mounted /\ phrases # <<>> /\ ValidProps) => IndexInRange

(* C9, as stated: when new props arrive while a timer is pending, that     *)
(* step changes neither text, flags nor index, and the effect run that     *)
(* follows cancels the pending timer and schedules a new one for the same  *)
(* phase with the new interval, again changing neither text, flags nor     *)
(* index.                                                                  *)
C9_RescheduledSamePhase ==
    [][/\ (mounted /\ mounted' /\ props' # props) => UNCHANGED state
       /\ (ReconfiguredWhileRunning /\ ValidProps) =>
             (RescheduledForSamePhase /\ UNCHANGED state)]_vars

(* C9, amended: as stated, except when the cycler is Typing and the        *)
(* displayed text equals the new active phrase: then the effect run        *)
(* cancels the pending timer, schedules none, and sets isPaused, leaving   *)
(* text and index unchanged.                                               *)
C9_RescheduledUnlessComplete ==
    [][/\ (mounted /\ mounted' /\ props' # props) => UNCHANGED state
       /\ ReconfiguredWhileRunning =>
             IF Typing /\ currentText = ActivePhrase
             THEN /\ timers' = {}
                  /\ isPaused' /\ ~isDeleting'
                  /\ UNCHANGED <<currentText, currentPhraseIndex>>
             ELSE RescheduledForSamePhase /\ UNCHANGED state]_vars

\* New speeds have arrived while the deleting tick timer, scheduled with the
\* old deleting speed, is still pending.
C9_Witness ==
    /\ ReconfiguredWhileRunning
    /\ isDeleting
    /\ ValidProps
    /\ \E t \in timers : t.kind = "tick" /\ t.isDeleting /\ t.delay # deletingSpeed

(* C10: the first state of every instance is Typing with index 0 and empty *)
(* text: the state after construction, and the state after every mount,    *)
(* whatever the instance before it was showing.                            *)
C10_FreshAtMount ==
    /\ FreshState
    /\ [][(~mounted /\ mounted') => FreshState']_vars

\* A second instance, fresh, after the first one had run timers.
C10_Witness ==
    /\ mounted
    /\ instance = 2
    /\ lastTimerId # 0
    /\ effectPending
    /\ timers = {}
    /\ FreshState

----------------------------------------------------------------------------
(* Vocabulary of the tick-by-tick properties *)

\* The step is the tick timer's callback running on the mounted component.
TickStep ==
    /\ mounted /\ mounted'
    /\ ~effectPending
    /\ \E t \in timers : t.kind = "tick" /\ timers' = timers \ {t}

\* The step is the pause timer's callback running on the mounted component.
PauseStep ==
    /\ mounted /\ mounted'
    /\ ~effectPending
    /\ \E t \in timers : t.kind = "pause" /\ timers' = timers \ {t}

(* C11: on a fixed list, a tick in Typing turns the text, a prefix of      *)
(* length k < len of the active phrase, into the prefix of length k + 1,   *)
(* and changes nothing else: so len ticks from the empty text give the     *)
(* phrase and fewer do not.  isPaused is set only in Typing with the text  *)
(* equal to the phrase, it is set by the very next step once the text is   *)
(* complete, and it never holds with a shorter text.                       *)
C11_TypingTicks ==
    /\ [][/\ (TickStep /\ Typing) =>
                /\ Len(currentText) < Len(ActivePhrase)
                /\ currentText' = SubSeq(ActivePhrase, 1, Len(currentText) + 1)
                /\ UNCHANGED <<currentPhraseIndex, isDeleting, isPaused>>
          /\ (~isPaused /\ isPaused') =>
                /\ Typing /\ currentText = ActivePhrase
                /\ UNCHANGED <<currentText, currentPhraseIndex, isDeleting>>
          /\ (mounted /\ Typing /\ currentText = ActivePhrase) => isPaused']_vars
    /\ [](isPaused => currentText = ActivePhrase)
    /\ []((mounted /\ Typing /\ currentText = ActivePhrase) => effectPending)

\* A two-character phrase just completed and Paused entered, the pause timer
\* not yet scheduled.
C11_Witness ==
    /\ mounted
    /\ isPaused
    /\ effectPending
    /\ timers = {}
    /\ Len(currentText) = 2
    /\ currentText = ActivePhrase

(* C12: on a fixed list, Deleting starts from the full phrase; a tick in   *)
(* Deleting removes exactly the last character of a non-empty text and     *)
(* changes nothing else: so len ticks empty the text.  Deleting ends only  *)
(* with the text empty, in the step after the last tick, and that step     *)
(* moves the index from i to (i + 1) mod the list's length and leaves the  *)
(* phase Typing with the text empty.                                       *)
C12_DeletingTicks ==
    /\ [][/\ (~isDeleting /\ isDeleting') =>
                /\ isPaused /\ ~isPaused'
                /\ currentText = ActivePhrase
                /\ UNCHANGED <<currentText, currentPhraseIndex>>
          /\ (TickStep /\ isDeleting) =>
                /\ currentText # <<>>
                /\ currentText' = SubSeq(currentText, 1, Len(currentText) - 1)
                /\ UNCHANGED <<currentPhraseIndex, isDeleting, isPaused>>
          /\ (isDeleting /\ ~isDeleting') =>
                /\ currentText = <<>> /\ currentText' = <<>>
                /\ currentPhraseIndex' = (currentPhraseIndex + 1) % Len(phrases)
                /\ ~isPaused'
          /\ (mounted /\ isDeleting /\ currentText = <<>>) => ~isDeleting']_vars
    /\ []((mounted /\ isDeleting /\ currentText = <<>>) => effectPending)

\* The first phrase of a two-phrase list has just been deleted to the end: the
\* index has moved to 1 and the phase is Typing again.
C12_Witness ==
    /\ mounted
    /\ Len(phrases) = 2
    /\ currentPhraseIndex = 1
    /\ Typing
    /\ currentText = <<>>
    /\ effectPending
    /\ timers = {}

(* C13: while the mounted component is Paused no step changes the text or  *)
(* the index; a step that keeps it Paused keeps isDeleting, and the only   *)
(* step that ends Paused is the pause timer's callback, which enters       *)
(* Deleting.  The only timer pending while Paused is a pause timer.        *)
C13_PausedFrame ==
    /\ [][(mounted /\ mounted' /\ isPaused) =>
             /\ UNCHANGED <<currentText, currentPhraseIndex>>
             /\ isPaused' => UNCHANGED isDeleting
             /\ ~isPaused' => (PauseStep /\ isDeleting')]_vars
    /\ [](isPaused => \A t \in timers : t.kind = "pause")

\* The pause timer has just fired on a completed two-character phrase.
C13_Witness ==
    /\ mounted
    /\ isDeleting /\ ~isPaused
    /\ effectPending
    /\ timers = {}
    /\ Len(currentText) = 2
    /\ currentText = ActivePhrase

(* C14: on a fixed list the index changes only in the step that ends       *)
(* Deleting with the text empty, and then from i to (i + 1) mod the list's *)
(* length; on ["ab", "cd"], with the index at 1 and the cycler typing, the *)
(* text is "", "c" or "cd".                                                *)
C14_IndexStepsAtEndOfDeleting ==
    /\ [][currentPhraseIndex' # currentPhraseIndex =>
             /\ mounted
             /\ isDeleting /\ ~isDeleting'
             /\ currentText = <<>>
             /\ currentPhraseIndex' = (currentPhraseIndex + 1) % Len(phrases)]_vars
    /\ []((phrases = AbCd /\ currentPhraseIndex = 1 /\ ~isDeleting) =>
             currentText \in { <<>>, <<"c">>, <<"c", "d">> })

\* After the cycle on "ab": index 1 and "c" typed.
C14_Witness ==
    /\ mounted
    /\ phrases = AbCd
    /\ currentPhraseIndex = 1
    /\ Typing
    /\ currentText = <<"c">>

\* The phase the two flags encode; both flags set encode none.
Phase ==
    IF isPaused /\ isDeleting THEN "Invalid"
    ELSE IF isPaused THEN "Paused"
    ELSE IF isDeleting THEN "Deleting"
    ELSE "Typing"

PhaseCycle ==
    { <<"Typing", "Paused">>, <<"Paused", "Deleting">>, <<"Deleting", "Typing">> }

(* C15: on a fixed list every change of phase of the mounted component is  *)
(* Typing to Paused, Paused to Deleting or Deleting to Typing.  On ["hi"]  *)
(* the index is always 0, the text is "", "h" or "hi", Paused holds only   *)
(* on "hi", and Deleting ends on "" into Typing with index 0.              *)
C15_PhaseCycle ==
    /\ [][(mounted /\ mounted' /\ Phase' # Phase) =>
             <<Phase, Phase'>> \in PhaseCycle]_vars
    /\ [](Phase # "Invalid")
    /\ [](phrases = Hi =>
             /\ currentPhraseIndex = 0
             /\ currentText \in { <<>>, <<"h">>, <<"h", "i">> }
             /\ isPaused => currentText = <<"h", "i">>)
    /\ [][(phrases = Hi /\ Phase = "Deleting" /\ Phase' = "Typing") =>
             (currentText' = <<>> /\ currentPhraseIndex' = 0)]_vars

\* ["hi"] typed, paused on and deleted once: Typing again at index 0 on "".
C15_Witness ==
    /\ mounted
    /\ phrases = Hi
    /\ Phase = "Typing"
    /\ currentPhraseIndex = 0
    /\ currentText = <<>>
    /\ effectPending
    /\ timers = {}
    /\ lastTimerId # 0

(* C16: on a fixed list, with a one-character active phrase, the typing    *)
(* tick runs on the empty text and yields the phrase, the deleting tick    *)
(* runs on the phrase and yields the empty text, Paused is entered from    *)
(* Typing on the complete phrase and Deleting is entered from Paused.      *)
C16_SingleCharacterPhrase ==
    [][(IndexInRange /\ Len(ActivePhrase) = 1) =>
          /\ (TickStep /\ Typing) =>
                (currentText = <<>> /\ currentText' = ActivePhrase)
          /\ (TickStep /\ isDeleting) =>
                (currentText = ActivePhrase /\ currentText' = <<>>)
          /\ (~isPaused /\ isPaused') => (Typing /\ currentText = ActivePhrase)
          /\ (~isDeleting /\ isDeleting') => isPaused]_vars

\* The one deleting tick has just emptied a one-character phrase.
C16_Witness ==
    /\ mounted
    /\ IndexInRange
    /\ Len(ActivePhrase) = 1
    /\ isDeleting
    /\ currentText = <<>>
    /\ effectPending

\* The values timer t's callback closes over are those of the current state.
TimerMatchesState(t) ==
    /\ t.kind = PhaseTimerKind
    /\ t.isDeleting = isDeleting
    /\ t.currentPhrase = ActivePhrase

(* C17: the cycler's steps are functions of its state.  Between effect     *)
(* runs at most one timer is pending and its callback closes over the      *)
(* current phrase and flags, so a firing has one outcome: a tick yields    *)
(* the text computed from the current text, phrase and phase, and leaves   *)
(* index and flags alone.  The phase of a mounted instance changes only in *)
(* the pause timer's callback or in the effect run that follows a firing,  *)
(* a mount or new props.                                                   *)
C17_Deterministic ==
    /\ []((mounted /\ ~effectPending) =>
             /\ Cardinality(timers) <= 1
             /\ \A t \in timers : TimerMatchesState(t))
    /\ [][TickStep =>
             /\ currentText' = IF isDeleting
                                 THEN DeleteChar(currentText)
                                 ELSE TypeChar(ActivePhrase, currentText)
             /\ UNCHANGED <<currentPhraseIndex, isDeleting, isPaused>>]_vars
    /\ [][(mounted /\ mounted' /\ instance' = instance /\ Phase' # Phase) =>
             (PauseStep \/ (effectPending /\ UNCHANGED props))]_vars

\* The second timer of the instance, a tick, has fired and completed a
\* two-character phrase.
C17_Witness ==
    /\ mounted
    /\ IndexInRange
    /\ Typing
    /\ effectPending
    /\ timers = {}
    /\ lastTimerId = 2
    /\ Len(currentText) = 2
    /\ currentText = ActivePhrase

\* The parsed body fails the schema, in the claim's own terms.
FailsSchema(req) ==
    \/ req.body # "object"
    \/ ~(IsString(req.name) /\ Len(req.name) \in 2..50)
    \/ ~IsEmail(req.email)
    \/ ~(IsString(req.message) /\ Len(req.message) \in 10..1000)

(* C18: the status of the answer is a function of the request.  GET is     *)
(* answered 405.  POST is answered 500, with the generic message, exactly  *)
(* when the body cannot be read as JSON; 400, with 'Validation failed',    *)
(* exactly when the body is read and fails the schema; and 200 otherwise.  *)
C18_StatusFunctionOfRequest ==
    routePc = "done" =>
        /\ request.method = "GET" => response.status = 405
        /\ request.method = "POST" =>
              /\ response.status \in { 200, 400, 500 }
              /\ response.status = 500 <=> request.body = "malformed"
              /\ response.status = 400 <=>
                    (request.body # "malformed" /\ FailsSchema(request))
              /\ response.status = 500 =>
                    response.message =
                        "An unexpected error occurred. Please try again later."
              /\ response.status = 400 => response.message = "Validation failed"

\* A name of 51 characters, all else valid, has been answered 400.
C18_Witness ==
    /\ routePc = "done"
    /\ request.method = "POST"
    /\ request.body = "object"
    /\ IsString(request.name) /\ Len(request.name) = 51
    /\ IsEmail(request.email)
    /\ IsString(request.message) /\ Len(request.message) = 1000
    /\ response.status = 400
    /\ response.errors = { "name" }

(* C19: the mail service is called at most once for a request, and only    *)
(* for a POST whose body was read and passed the schema; a request         *)
(* answered 400, 405 or 500 made no call.                                  *)
C19_MailOnlyAfterValidation ==
    /\ Len(mailCalls) <= 1
    /\ mailCalls # <<>> =>
          /\ request.method = "POST"
          /\ request.body # "malformed"
          /\ ~FailsSchema(request)
          /\ routePc \in { "sending", "done" }
    /\ (routePc = "done" /\ response.status # 200) => mailCalls = <<>>
    /\ (routePc = "done" /\ response.status = 200) => Len(mailCalls) = 1

\* A valid request has been answered after its one mail call.
C19_Witness ==
    /\ routePc = "done"
    /\ response.status = 200
    /\ Len(mailCalls) = 1
    /\ mailOutcome = "sent"

\* Submissions under way: validating, posting or reading an error body.
UnderWay == validating + fetching + readingError

(* C20: while a submission of the mounted form is under way, from the      *)
(* submit event until its request has settled and its outcome is shown,    *)
(* the submit button is disabled; at most one submission is under way, so  *)
(* at most one request to /api/contact is in flight, and a submission      *)
(* starts only with none under way.                                        *)
C20_NoDuplicateSubmission ==
    /\ [](UnderWay <= 1)
    /\ [](fetching <= 1)
    /\ []((contactMounted /\ UnderWay > 0) => SubmitDisabled)
    /\ [][submits' # submits => (UnderWay = 0 /\ UnderWay' = 1)]_vars

\* Submitted again within 5 s of a success: the earlier auto-hide timeout has
\* fired with the second request in flight, and the button is still disabled.
C20_Witness ==
    /\ contactMounted
    /\ fetching = 1
    /\ submits = 2
    /\ submitStatus = "idle"
    /\ SubmitDisabled

\* The step is a click on the theme toggle.
ClickStep == clicks' = clicks + 1

(* C21: a click moves the stored theme one step along system, light, dark, *)
(* system, so three clicks return to the theme they started from and       *)
(* 'system' comes back after it was left.  The code does not do this.      *)
C21_ThreeStateCycle ==
    /\ [][ClickStep =>
             theme' = IF theme = "system" THEN "light"
                      ELSE IF theme = "light" THEN "dark" ELSE "system"]_vars
    /\ [](\A i \in 1..(Len(themeLog) - 3) :
             themeLog[i + 3].theme = themeLog[i].theme)
    /\ [](\A i \in 1..(Len(themeLog) - 1) :
             themeLog[i].theme = "dark" => themeLog[i + 1].theme = "system")

(* C22: every click changes the theme the page shows, from light to dark   *)
(* or from dark to light, also the first click on 'system' with a dark     *)
(* system; two clicks with the system's preference unchanged restore the   *)
(* theme shown.  The code does not do this.                                *)
C22_ClickFlipsShownTheme ==
    /\ [][ClickStep =>
             Resolved(theme', systemTheme') # Resolved(theme, systemTheme)]_vars
    /\ [](\A i \in 1..(Len(themeLog) - 2) :
             (themeLog[i + 2].systemTheme = themeLog[i].systemTheme
                 /\ themeLog[i + 1].systemTheme = themeLog[i].systemTheme) =>
             themeLog[i + 2].resolved = themeLog[i].resolved)

(* C23: once the mail call has settled, sent or thrown, the answer is the  *)
(* one success response: status 200, success true and the same message.    *)
C23_MailFailureHidden ==
    (routePc = "done" /\ mailOutcome # "none") =>
        response = [status |-> 200, success |-> "true",
                    message |->
                        "Message received successfully! Thank you for reaching out.",
                    errors |-> {}]

\* The mail call threw and the request was answered 200.
C23_Witness ==
    /\ routePc = "done"
    /\ mailOutcome = "threw"
    /\ Len(mailCalls) = 1
    /\ response.status = 200
    /\ response.success = "true"

\* The positions of str that hold no blank.
NonBlank(str) == { k \in 1..Len(str) : str[k] \notin { " ", "\n" } }

\* str without its leading and trailing blanks: from its first to its last
\* character that is no blank.
Trimmed(str) ==
    LET kept == NonBlank(str)
    IN  IF kept = {} THEN <<>>
        ELSE LET first == CHOOSE k \in kept : \A j \in kept : k <= j
                 last  == CHOOSE k \in kept : \A j \in kept : j <= k
             IN  SubSeq(str, first, last)

\* str without its '<' and '>': the n-th character is the n-th kept one.
WithoutAngles(str) ==
    LET kept == { k \in 1..Len(str) : str[k] # "<" /\ str[k] # ">" }
    IN  IF kept = 1..Len(str) THEN str
        ELSE [n \in 1..Cardinality(kept) |->
                 str[CHOOSE k \in kept : Cardinality({ j \in kept : j <= k }) = n]]

\* str with its upper-case letters replaced by their lower-case ones.
LowerCased(str) ==
    LET lower == [c \in { "A", "B" } |-> IF c = "A" THEN "a" ELSE "b"]
    IN  [k \in 1..Len(str) |->
            IF str[k] \in DOMAIN lower THEN lower[str[k]] ELSE str[k]]

(* C24: the mail handed to the mail service carries, as name and message,  *)
(* the request's fields trimmed and then without any '<' or '>', and as    *)
(* email the request's field trimmed and lower-cased, in replyTo, subject  *)
(* and text; no element of the html body is a '<' or '>' character.        *)
C24_MailIsSanitized ==
    mailCalls # <<>> =>
        LET mail    == mailCalls[1]
            name    == WithoutAngles(Trimmed(request.name))
            email   == LowerCased(Trimmed(request.email))
            message == WithoutAngles(Trimmed(request.message))
        IN  /\ mail.replyTo = email
            /\ mail.subject = << "Portfolio Contact from " >> \o name
            /\ mail.text = << "Name: " >> \o name \o << "\nEmail: " >> \o email
                           \o << "\n\nMessage:\n" >> \o message
            /\ \A k \in 1..Len(mail.html) : mail.html[k] \notin { "<", ">" }
            /\ \A k \in 1..Len(mail.subject) : mail.subject[k] \notin { "<", ">" }
            /\ \A k \in 1..Len(mail.text) : mail.text[k] \notin { "<", ">" }

\* A name, an email and a message with blanks, markup and upper case have
\* been handed to the mail service.
C24_Witness ==
    /\ Len(mailCalls) = 1
    /\ request.name = << " ", "<", "A", ">", " " >>
    /\ request.email = << "A", ".", "b", "@", "B", ".", "c", "c" >>
    /\ "<" \in { request.message[k] : k \in 1..Len(request.message) }
    /\ mailCalls[1].subject = << "Portfolio Contact from ", "A" >>
    /\ mailCalls[1].replyTo = << "a", ".", "b", "@", "b", ".", "c", "c" >>

\* The steps of onSubmit and of its timeout, told by what they count.
SubmitStartStep == fetching' = fetching + 1

SuccessStep == hideTimers' = hideTimers + 1

ErrorBodyStep == readingError' = readingError - 1

RejectStep ==
    fetching' = fetching - 1 /\ UNCHANGED <<hideTimers, readingError>>

HideStep == hideTimers' = hideTimers - 1

\* The messages the endpoint sends with an error.
ServerMessages ==
    { "Validation failed", "An unexpected error occurred. Please try again later." }

(* C25 as stated: on the mounted form, starting a submission sets          *)
(* 'loading'; an ok response takes 'loading' to 'success' and resets the   *)
(* form; a response that is not ok takes 'loading' to 'error' with the     *)
(* server's message or 'Failed to send message', the form kept; the        *)
(* timeout of a success sets 'idle'.  The code does not do this.           *)
C25_StatusFlow ==
    [][contactMounted =>
          /\ SubmitStartStep => submitStatus' = "loading"
          /\ SuccessStep =>
                /\ submitStatus = "loading" /\ submitStatus' = "success"
                /\ formData' = "empty"
          /\ ErrorBodyStep =>
                /\ submitStatus = "loading" /\ submitStatus' = "error"
                /\ errorMessage' \in ServerMessages \cup { "Failed to send message" }
                /\ formData' = formData
          /\ HideStep => submitStatus' = "idle"]_vars

(* C25 amended: on the mounted form, starting a submission sets 'loading'  *)
(* and clears the message; an ok response sets 'success' and resets the    *)
(* form; a response that is not ok sets 'error' with the server's message, *)
(* with 'Failed to send message' when the body has none, or with the       *)
(* parser's message when the body is no JSON, and a rejected fetch sets    *)
(* 'error' with the rejection's message, the form kept in all three; a     *)
(* timeout of a success sets 'idle'.  The status an outcome replaces is    *)
(* 'loading', or 'idle' when an earlier timeout fired meanwhile; nothing   *)
(* else changes the status.                                                *)
C25_StatusFlowAmended ==
    [][contactMounted =>
          /\ SubmitStartStep =>
                (submitStatus' = "loading" /\ errorMessage' = "" /\ formData' = formData)
          /\ SuccessStep =>
                /\ submitStatus \in { "loading", "idle" }
                /\ submitStatus' = "success"
                /\ formData' = "empty"
                /\ errorMessage' = errorMessage
          /\ ErrorBodyStep =>
                /\ submitStatus \in { "loading", "idle" }
                /\ submitStatus' = "error"
                /\ errorMessage' \in ServerMessages
                                     \cup { "Failed to send message", "Unexpected token" }
                /\ formData' = formData
          /\ RejectStep =>
                /\ submitStatus \in { "loading", "idle" }
                /\ submitStatus' = "error"
                /\ errorMessage' = "Failed to fetch"
                /\ formData' = formData
          /\ HideStep => submitStatus' = "idle"
          /\ submitStatus' # submitStatus =>
                (SubmitStartStep \/ SuccessStep \/ ErrorBodyStep \/ RejectStep
                    \/ HideStep)]_vars

\* An error response without JSON has been read: 'error' with the parser's
\* message, the fields kept, after an earlier success.
C25_Witness ==
    /\ contactMounted
    /\ submitStatus = "error"
    /\ errorMessage = "Unexpected token"
    /\ formData = "valid"
    /\ submits = 2
    /\ hideTimers = 1

(* C26: a firing auto-hide timeout changes the status only from 'success'  *)
(* to 'idle', and none fires once the form is unmounted.  The code does    *)
(* not do this.                                                            *)
C26_HideOnlyAfterSuccess ==
    [][HideStep =>
          /\ contactMounted
          /\ submitStatus' # submitStatus =>
                (submitStatus = "success" /\ submitStatus' = "idle")]_vars

C28_FlagsExclusive == ~(isPaused /\ isDeleting)

\* Deleting has begun on a complete phrase, at a speed other than the
\* default, and the effect has run without pausing again.
C28_Witness ==
    /\ mounted
    /\ IndexInRange
    /\ isDeleting /\ ~isPaused
    /\ currentText = ActivePhrase
    /\ ~effectPending
    /\ \E t \in timers : t.kind = "tick" /\ t.delay # DefaultDeletingSpeed

(* C29: when the phrase list is replaced by one that holds the current     *)
(* index, the state is kept.  A typing tick then shows the prefix of the   *)
(* new active phrase of length min(len(text) + 1, len(phrase)); a deleting *)
(* tick removes the last character.  A text that is no prefix of the       *)
(* active phrase becomes one again, and the cycler goes on completing      *)
(* phrases and emptying the text for ever.                                 *)
C29_PrefixRestored ==
    /\ [][/\ replacements' # replacements => UNCHANGED state
          /\ (TickStep /\ Typing) =>
                /\ currentText' =
                      SubSeq(ActivePhrase, 1,
                             Min(Len(currentText) + 1, Len(ActivePhrase)))
                /\ UNCHANGED <<currentPhraseIndex, isDeleting, isPaused>>
          /\ (TickStep /\ isDeleting) =>
                /\ currentText # <<>>
                /\ currentText' = SubSeq(currentText, 1, Len(currentText) - 1)
                /\ UNCHANGED <<currentPhraseIndex, isDeleting, isPaused>>]_vars
    /\ [](IndexInRange /\ mounted /\ ~threw)
    /\ (~IsPrefix(currentText, ActivePhrase)) ~> IsPrefix(currentText, ActivePhrase)
    /\ []<>(isPaused /\ currentText = ActivePhrase)
    /\ []<>(Typing /\ currentText = <<>>)

\* The list was replaced while typing, the text is no prefix of the new
\* active phrase, and the tick on the new phrase is scheduled.
C29_Witness ==
    /\ mounted
    /\ replacements >= 1
    /\ Typing
    /\ currentText # <<>>
    /\ ~IsPrefix(currentText, ActivePhrase)
    /\ ~effectPending
    /\ \E t \in timers : t.kind = "tick" /\ t.currentPhrase = ActivePhrase

====
